---- MODULE Spec2Model ----
(***************************************************************************)
(* A model of the snarkVM ledger coordinator                               *)
(* (vm/compiler/src/ledger/mod.rs): the chain tip, the block tree, the     *)
(* four height-keyed maps, the memory pool and the VM, with the operations *)
(* from_genesis, from_maps, add_to_memory_pool, propose_next_block,        *)
(* check_next_block, add_next_block and to_state_path; and of the output   *)
(* verifier Response::verify (circuit/program/src/response/verify.rs).     *)
(*                                                                         *)
(* Hashes and Merkle roots are modelled as injective constructors (tagged  *)
(* tuples of what is hashed), i.e. collision-free hashing.                 *)
(***************************************************************************)
EXTENDS Integers, Sequences, FiniteSets, TLC

VARIABLES
    current_hash,      \* Ledger::current_hash
    current_height,    \* Ledger::current_height
    current_round,     \* Ledger::current_round
    block_tree,        \* Ledger::block_tree, as the sequence of its leaves
    previous_hashes,   \* Ledger::previous_hashes : height -> block hash
    headers,           \* Ledger::headers         : height -> header
    transactions,      \* Ledger::transactions    : height -> transactions
    signatures,        \* Ledger::signatures      : height -> signature
    memory_pool,       \* Ledger::memory_pool, an insertion-ordered map, as the sequence of its keys
    vm,                \* Ledger::vm
    result,            \* the outcome of the last call: [op, ok, error]
    staging            \* the commit in progress, if any: the staged copy, the block and the next step

ledger_vars == <<current_hash, current_height, current_round, block_tree, previous_hashes,
                 headers, transactions, signatures, memory_pool, vm>>

vars == <<current_hash, current_height, current_round, block_tree, previous_hashes,
          headers, transactions, signatures, memory_pool, vm, result, staging>>

----------------------------------------------------------------------------
(* Bounds of the model. *)

\* The largest block height a caller offers.
MaxHeight == 2
\* The largest round number a caller offers.
MaxRound == 1
\* The largest timestamp a caller (or the wall clock) offers.
MaxTimestamp == 2
\* The largest number of transactions a caller puts into one block.
MaxBlockTxs == 2
\* The largest number of transactions held by the memory pool.
MaxPool == 2
\* The same, where the callers only pool transactions and commit pooled ones.
MaxPooled == 3
\* The largest number of outputs of a response.
MaxOutputs == 2

----------------------------------------------------------------------------
(* Generic helpers. *)

Range(s) == {s[i] : i \in DOMAIN s}

NoDuplicates(s) == \A i, j \in DOMAIN s : i # j => s[i] # s[j]

RECURSIVE Flatten(_)
\* The concatenation of a sequence of sequences.
Flatten(ss) == IF ss = <<>> THEN <<>> ELSE Head(ss) \o Flatten(Tail(ss))

\* The sequences of at most n distinct elements of S.
SeqsNoDup(S, n) ==
    {s \in UNION {[1..k -> S] : k \in 0..n} : NoDuplicates(s)}

\* The keys of a height-keyed map in ascending order (the maps are ordered by key).
RECURSIVE SortedKeys(_)
SortedKeys(S) ==
    IF S = {} THEN <<>>
    ELSE LET m == CHOOSE x \in S : \A y \in S : x <= y
         IN  <<m>> \o SortedKeys(S \ {m})

\* Map::insert: insert or overwrite.
MapInsert(map, k, v) == [x \in (DOMAIN map) \cup {k} |-> IF x = k THEN v ELSE map[x]]

EmptyMap == [x \in {} |-> 0]

----------------------------------------------------------------------------
(* The transactions of the model. Each transaction is identified by its    *)
(* id; a transition carries one transition public key and its serial       *)
(* numbers, commitments, nonces and origins.                               *)

OriginCommitment(c) == [kind |-> "Commitment", value |-> c]
OriginStateRoot(r)  == [kind |-> "StateRoot", value |-> r]

Transition(tid, tpk, sns, cms, nonces, origins) ==
    [id |-> tid, tpk |-> tpk, serial_numbers |-> sns, commitments |-> cms,
     nonces |-> nonces, origins |-> origins]

\* Transaction 0 is the genesis transaction; it creates commitment 0.
\* Transactions 1 and 2 spend the same record (serial number 1).
\* Transaction 3 spends the record created by transaction 1 (commitment 1).
\* Transactions 2 and 4 deploy the same program.
\* Transaction 5 has an origin that is a state root, and two transitions that create
\* the same commitment, of which one also creates the commitment of transaction 4.
TransactionTable ==
    [id \in 0..5 |->
       CASE id = 0 -> [id |-> 0, kind |-> "execute", program |-> 0,
                       transitions |-> <<Transition(0, 0, <<>>, <<0>>, <<0>>, <<>>)>>]
         [] id = 1 -> [id |-> 1, kind |-> "execute", program |-> 0,
                       transitions |-> <<Transition(1, 1, <<1>>, <<1>>, <<1>>, <<OriginCommitment(0)>>)>>]
         [] id = 2 -> [id |-> 2, kind |-> "deploy", program |-> 1,
                       transitions |-> <<Transition(2, 2, <<1>>, <<2>>, <<2>>, <<OriginCommitment(0)>>)>>]
         [] id = 3 -> [id |-> 3, kind |-> "execute", program |-> 0,
                       transitions |-> <<Transition(3, 3, <<3>>, <<3>>, <<3>>, <<OriginCommitment(1)>>)>>]
         [] id = 4 -> [id |-> 4, kind |-> "deploy", program |-> 1,
                       transitions |-> <<Transition(4, 4, <<>>, <<4>>, <<4>>, <<>>)>>]
         [] id = 5 -> [id |-> 5, kind |-> "execute", program |-> 0,
                       transitions |-> <<Transition(5, 5, <<>>, <<5>>, <<5>>, <<OriginStateRoot(0)>>),
                                         Transition(6, 6, <<>>, <<5, 4>>, <<6>>, <<>>)>>]]

TransactionIDs == DOMAIN TransactionTable

\* The transactions of the genesis block.
GenesisTransactions == <<0>>

\* The transaction with the given id.
Tx(id) == TransactionTable[id]

\* Transaction::transition_public_keys, serial_numbers, commitments, nonces, origins:
\* over the transitions of the transaction, in order.
tx_transition_public_keys(tx) == [i \in DOMAIN tx.transitions |-> tx.transitions[i].tpk]
tx_serial_numbers(tx) == Flatten([i \in DOMAIN tx.transitions |-> tx.transitions[i].serial_numbers])
tx_commitments(tx)    == Flatten([i \in DOMAIN tx.transitions |-> tx.transitions[i].commitments])
tx_nonces(tx)         == Flatten([i \in DOMAIN tx.transitions |-> tx.transitions[i].nonces])
tx_origins(tx)        == Flatten([i \in DOMAIN tx.transitions |-> tx.transitions[i].origins])

\* The same, tabulated by transaction id.
TransitionPublicKeysOf == [id \in TransactionIDs |-> tx_transition_public_keys(Tx(id))]
SerialNumbersOf        == [id \in TransactionIDs |-> tx_serial_numbers(Tx(id))]
CommitmentsOf          == [id \in TransactionIDs |-> tx_commitments(Tx(id))]
NoncesOf               == [id \in TransactionIDs |-> tx_nonces(Tx(id))]
OriginsOf              == [id \in TransactionIDs |-> tx_origins(Tx(id))]

\* Transactions::transition_public_keys, ... : over a list of transactions (given by
\* their ids), in order.
txs_transition_public_keys(txs) == Flatten([i \in DOMAIN txs |-> TransitionPublicKeysOf[txs[i]]])
txs_serial_numbers(txs) == Flatten([i \in DOMAIN txs |-> SerialNumbersOf[txs[i]]])
txs_commitments(txs)    == Flatten([i \in DOMAIN txs |-> CommitmentsOf[txs[i]]])
txs_nonces(txs)         == Flatten([i \in DOMAIN txs |-> NoncesOf[txs[i]]])
txs_origins(txs)        == Flatten([i \in DOMAIN txs |-> OriginsOf[txs[i]]])

\* The transactions with an origin that is a state root, and those without.
StateRootOriginIDs == {id \in TransactionIDs : \E i \in DOMAIN OriginsOf[id] : OriginsOf[id][i].kind = "StateRoot"}
CommitmentOriginIDs == TransactionIDs \ StateRootOriginIDs

\* The values one of these iterators yields, e.g. Yields(txs, SerialNumbersOf) is the set
\* of the values of txs_serial_numbers(txs).
Yields(txs, of) == UNION {Range(of[txs[i]]) : i \in DOMAIN txs}

\* Transactions::to_root: the Merkle root over the transaction ids.
transactions_to_root(txs) == <<"transactions_root", txs>>

----------------------------------------------------------------------------
(* Blocks, headers and hashes. *)

\* The default block hash (N::BlockHash::default()).
ZeroHash == <<"zero">>

\* BHPMerkleTree::root of the block tree with the given leaves.
tree_root(leaves) == <<"state_root", leaves>>

Metadata(round, height, timestamp) ==
    [round |-> round, height |-> height, timestamp |-> timestamp]

Header(state_root, txs_root, metadata) ==
    [previous_state_root |-> state_root, transactions_root |-> txs_root, metadata |-> metadata]

\* Header::to_root.
header_to_root(header) ==
    <<"header_root", header.previous_state_root, header.transactions_root, header.metadata>>

Block(previous_hash, header, txs, signature) ==
    [previous_hash |-> previous_hash, header |-> header, transactions |-> txs,
     signature |-> signature]

\* Block::hash: the hash of (previous_hash, header_root, signature).
block_hash(block) ==
    <<"block_hash", block.previous_hash, header_to_root(block.header), block.signature>>

block_height(block)    == block.header.metadata.height
block_round(block)     == block.header.metadata.round
block_timestamp(block) == block.header.metadata.timestamp

\* The signature of the block producer.
Signature == "signature"

\* The genesis block: height 0, round 0, timestamp 0, previous hash the default hash.
GenesisBlock ==
    Block(ZeroHash,
          Header(tree_root(<<>>), transactions_to_root(GenesisTransactions), Metadata(0, 0, 0)),
          GenesisTransactions, Signature)

----------------------------------------------------------------------------
(* The ledger as a value: the struct Ledger. *)

Self == [current_hash |-> current_hash, current_height |-> current_height,
         current_round |-> current_round, block_tree |-> block_tree,
         previous_hashes |-> previous_hashes, headers |-> headers,
         transactions |-> transactions, signatures |-> signatures,
         memory_pool |-> memory_pool, vm |-> vm]

\* VM::new: no program deployed, no transaction finalized.
NewVM == [programs |-> {}, finalized |-> {}]

\* The ledger from_genesis builds before it adds the genesis block.
EmptyLedger ==
    [current_hash |-> ZeroHash, current_height |-> 0, current_round |-> 0,
     block_tree |-> <<>>, previous_hashes |-> EmptyMap, headers |-> EmptyMap,
     transactions |-> EmptyMap, signatures |-> EmptyMap,
     memory_pool |-> <<>>, vm |-> NewVM]

\* No commit is in progress.
Idle == [pc |-> "idle"]

\* latest.rs
latest_hash(self)       == self.current_hash
latest_height(self)     == self.current_height
latest_round(self)      == self.current_round
latest_state_root(self) == tree_root(self.block_tree)

\* get.rs: get_block(height) reassembles the block from the four maps; it fails when
\* one of them has no entry for the height.
get_block_ok(self, height) ==
    /\ height \in DOMAIN self.previous_hashes
    /\ height \in DOMAIN self.headers
    /\ height \in DOMAIN self.transactions
    /\ height \in DOMAIN self.signatures

get_block(self, height) ==
    Block(self.previous_hashes[height], self.headers[height],
          self.transactions[height], self.signatures[height])

latest_block_ok(self) == get_block_ok(self, latest_height(self))
latest_block(self)    == get_block(self, latest_height(self))

\* iterators.rs: the committed transactions, in height order and block order.
committed_transactions(self) ==
    Flatten([i \in 1..Cardinality(DOMAIN self.transactions) |->
                self.transactions[SortedKeys(DOMAIN self.transactions)[i]]])

\* contains.rs: the membership queries over the committed blocks.
contains_block_hash(self, hash) ==
    \E h \in DOMAIN self.previous_hashes :
        get_block_ok(self, h) /\ block_hash(get_block(self, h)) = hash

contains_height(self, height) == height \in DOMAIN self.previous_hashes

contains_transaction_id(self, id) ==
    \E h \in DOMAIN self.transactions : id \in Range(self.transactions[h])

contains_transition_public_key(self, tpk) ==
    \E h \in DOMAIN self.transactions : tpk \in Yields(self.transactions[h], TransitionPublicKeysOf)

contains_serial_number(self, sn) ==
    \E h \in DOMAIN self.transactions : sn \in Yields(self.transactions[h], SerialNumbersOf)

contains_commitment(self, cm) ==
    \E h \in DOMAIN self.transactions : cm \in Yields(self.transactions[h], CommitmentsOf)

contains_nonce(self, nonce) ==
    \E h \in DOMAIN self.transactions : nonce \in Yields(self.transactions[h], NoncesOf)

\* VM::finalize: a deployment of a program that is already deployed fails, and so does
\* finalizing the same transaction twice.
vm_finalize_ok(v, tx) ==
    /\ tx.id \notin v.finalized
    /\ tx.kind = "deploy" => tx.program \notin v.programs

vm_finalize(v, tx) ==
    [programs  |-> IF tx.kind = "deploy" THEN v.programs \cup {tx.program} ELSE v.programs,
     finalized |-> v.finalized \cup {tx.id}]

----------------------------------------------------------------------------
(* Ledger::add_to_memory_pool *)

\* The values of the iterator `of` that two lists of transactions have in common.
Shared(txs, others, of) == Yields(txs, of) \cap Yields(others, of)

\* A variant that also compares the transaction with the pooled transactions.
add_to_memory_pool_ok_among_pooled(self, id) ==
    /\ id \notin Range(self.memory_pool)
    /\ \A tpk \in Yields(<<id>>, TransitionPublicKeysOf) : ~contains_transition_public_key(self, tpk)
    /\ \A sn \in Yields(<<id>>, SerialNumbersOf) : ~contains_serial_number(self, sn)
    /\ \A cm \in Yields(<<id>>, CommitmentsOf) : ~contains_commitment(self, cm)
    /\ \A nonce \in Yields(<<id>>, NoncesOf) : ~contains_nonce(self, nonce)
    /\ \A of \in {TransitionPublicKeysOf, SerialNumbersOf, CommitmentsOf, NoncesOf} :
           Shared(<<id>>, self.memory_pool, of) = {}

\* A variant that only looks at the keys of the memory pool.
add_to_memory_pool_ok_by_key(self, id) ==
    id \notin Range(self.memory_pool)

add_to_memory_pool_ok(self, id) ==
    \* Ensure the transaction does not already exist.
    /\ id \notin Range(self.memory_pool)
    \* Ensure the ledger does not already contain a given transition public key.
    /\ \A tpk \in Yields(<<id>>, TransitionPublicKeysOf) : ~contains_transition_public_key(self, tpk)
    \* Ensure the ledger does not already contain a given serial number.
    /\ \A sn \in Yields(<<id>>, SerialNumbersOf) : ~contains_serial_number(self, sn)
    \* Ensure the ledger does not already contain a given commitment.
    /\ \A cm \in Yields(<<id>>, CommitmentsOf) : ~contains_commitment(self, cm)
    \* Ensure the ledger does not already contain a given nonce.
    /\ \A nonce \in Yields(<<id>>, NoncesOf) : ~contains_nonce(self, nonce)

add_to_memory_pool(self, id) ==
    IF add_to_memory_pool_ok(self, id)
    THEN [ok |-> TRUE, ledger |-> [self EXCEPT !.memory_pool = Append(@, id)]]
    ELSE [ok |-> FALSE, ledger |-> self]

----------------------------------------------------------------------------
(* Ledger::propose_next_block *)

propose_next_block_ok(self) == latest_block_ok(self)

\* A variant that keeps the round of the latest block.
propose_next_block_in_round(self, now) ==
    LET txs   == self.memory_pool
        block == latest_block(self)
        metadata == Metadata(block_round(block), block_height(block) + 1, now)
        header == Header(latest_state_root(self), transactions_to_root(txs), metadata)
    IN  Block(block_hash(block), header, txs, Signature)

\* A variant that keeps the height of the latest block.
propose_next_block_at_height(self, now) ==
    LET txs   == self.memory_pool
        block == latest_block(self)
        metadata == Metadata(block_round(block) + 1, block_height(block), now)
        header == Header(latest_state_root(self), transactions_to_root(txs), metadata)
    IN  Block(block_hash(block), header, txs, Signature)

\* `now` is the reading of the wall clock.
propose_next_block(self, now) ==
    LET txs   == self.memory_pool
        block == latest_block(self)
        state_root == latest_state_root(self)
        round == block_round(block) + 1
        metadata == Metadata(round, block_height(block) + 1, now)
        header == Header(state_root, transactions_to_root(txs), metadata)
    IN  Block(block_hash(block), header, txs, Signature)

----------------------------------------------------------------------------
(* Ledger::check_next_block.  `verifies` is the outcome of block.verify(&vm), the *)
(* check of the block's signature and proofs by the VM.                          *)

\* Ensure the previous block hash is correct and the block hash does not already exist.
check_previous_hash(self, block) ==
    /\ self.current_hash = block.previous_hash
    /\ ~contains_block_hash(self, block_hash(block))

\* A variant that does not look the height up.
check_height_of_next(self, height) ==
    ~(latest_height(self) > 0 /\ latest_height(self) + 1 # height)

\* Ensure the next block height is correct and does not already exist.
check_height(self, height) ==
    /\ ~(latest_height(self) > 0 /\ latest_height(self) + 1 # height)
    /\ ~contains_height(self, height)

\* Ensure the next round is correct.
check_round(self, round) ==
    ~(latest_round(self) > 0 /\ latest_round(self) + 1 # round)

\* A variant that rejects only a timestamp before the current one.
check_timestamp_not_before(self, height, timestamp) ==
    height > 0 =>
        /\ latest_block_ok(self)
        /\ ~(timestamp < block_timestamp(latest_block(self)))

\* Ensure the next block timestamp is after the current block timestamp.
check_timestamp(self, height, timestamp) ==
    height > 0 =>
        /\ latest_block_ok(self)
        /\ ~(timestamp <= block_timestamp(latest_block(self)))

\* A variant that also accepts a commitment produced by the block itself.
check_origins_with_block(self, txs) ==
    \A origin \in Yields(txs, OriginsOf) :
        /\ origin.kind = "Commitment" =>
               \/ contains_commitment(self, origin.value)
               \/ origin.value \in Yields(txs, CommitmentsOf)
        /\ origin.kind # "StateRoot"

\* A variant that lets a state root pass.
check_origins_of_commitments(self, txs) ==
    \A origin \in Yields(txs, OriginsOf) :
        origin.kind = "Commitment" => contains_commitment(self, origin.value)

\* Ensure that the origins are valid: a commitment exists in the ledger, and a state
\* root is not supported.
check_origins(self, txs) ==
    \A origin \in Yields(txs, OriginsOf) :
        /\ origin.kind = "Commitment" => contains_commitment(self, origin.value)
        /\ origin.kind # "StateRoot"

\* The checks of the block's transactions against the committed indices.
check_transactions(self, txs) ==
    \* Ensure the transactions in the block do not already exist.
    /\ \A id \in Range(txs) : ~contains_transaction_id(self, id)
    \* Ensure the ledger does not already contain a given transition public key.
    /\ \A tpk \in Yields(txs, TransitionPublicKeysOf) : ~contains_transition_public_key(self, tpk)
    \* Ensure that the origins are valid.
    /\ check_origins(self, txs)
    \* Ensure the ledger does not already contain a given serial number.
    /\ \A sn \in Yields(txs, SerialNumbersOf) : ~contains_serial_number(self, sn)
    \* Ensure the ledger does not already contain a given commitment.
    /\ \A cm \in Yields(txs, CommitmentsOf) : ~contains_commitment(self, cm)
    \* Ensure the ledger does not already contain a given nonce.
    /\ \A nonce \in Yields(txs, NoncesOf) : ~contains_nonce(self, nonce)

check_next_block(self, block, verifies) ==
    /\ check_previous_hash(self, block)
    /\ check_height(self, block_height(block))
    /\ check_round(self, block_round(block))
    /\ check_timestamp(self, block_height(block), block_timestamp(block))
    /\ check_transactions(self, block.transactions)
    \* Ensure the block is valid.
    /\ verifies

----------------------------------------------------------------------------
(* Ledger::add_next_block.  `fault` names the step of the atomic section, if *)
(* any, whose tree append or map insert returns an error.                    *)

Faults == {"none", "block_tree", "previous_hashes", "headers", "transactions", "signatures"}

\* A variant that pops the last entry, whatever the key.
pop_last(pool, id) ==
    IF id \notin Range(pool) THEN pool ELSE SubSeq(pool, 1, Len(pool) - 1)

\* IndexMap::remove is swap_remove: the last entry takes the place of the removed one.
swap_remove(pool, id) ==
    IF id \notin Range(pool) THEN pool
    ELSE LET i == CHOOSE k \in DOMAIN pool : pool[k] = id
             n == Len(pool)
         IN  [k \in 1..(n - 1) |-> IF k = i THEN pool[n] ELSE pool[k]]

\* A variant that leaves the memory pool as it is.
keep_all(pool, ids) == pool

RECURSIVE remove_all(_, _)
\* for transaction_id in block.transaction_ids() { ledger.memory_pool.remove(transaction_id) }
remove_all(pool, ids) ==
    IF ids = <<>> THEN pool ELSE remove_all(swap_remove(pool, Head(ids)), Tail(ids))

RECURSIVE finalize_all(_, _)
\* for transaction in block.transactions().values() { vm.finalize(transaction)?; }
\* The result holds the VM as it is when the loop ends or returns early.
finalize_all(v, ids) ==
    IF ids = <<>> THEN [ok |-> TRUE, vm |-> v]
    ELSE IF ~vm_finalize_ok(v, Tx(Head(ids))) THEN [ok |-> FALSE, vm |-> v]
    ELSE finalize_all(vm_finalize(v, Tx(Head(ids))), Tail(ids))

\* A variant that keeps the hash of the block before.
update_tip_stale_hash(ledger, block) ==
    [ledger EXCEPT !.current_hash = block.previous_hash,
                   !.current_height = block_height(block),
                   !.current_round = block_round(block)]

\* ledger.current_hash = block.hash(); ledger.current_height = block.height();
\* ledger.current_round = block.round();
update_tip(ledger, block) ==
    [ledger EXCEPT !.current_hash = block_hash(block),
                   !.current_height = block_height(block),
                   !.current_round = block_round(block)]

\* ledger.block_tree.append(&[block.hash().to_bits_le()])
append_to_block_tree(tree, block) == Append(tree, block_hash(block))

\* ledger.previous_hashes.insert(block.height(), block.previous_hash())
insert_previous_hash(map, block) == MapInsert(map, block_height(block), block.previous_hash)

\* ledger.headers.insert(block.height(), *block.header())
insert_header(map, block) == MapInsert(map, block_height(block), block.header)

\* A variant that forgets the transactions of the other heights.
insert_transactions_only(map, block) == MapInsert(EmptyMap, block_height(block), block.transactions)

\* ledger.transactions.insert(block.height(), block.transactions().clone())
insert_transactions(map, block) == MapInsert(map, block_height(block), block.transactions)

\* ledger.signatures.insert(block.height(), *block.signature())
insert_signature(map, block) == MapInsert(map, block_height(block), block.signature)

\* The staged copy (`ledger`, with `vm`) as the atomic section leaves it: when it
\* completes (ok), or at the step that returns an error.
staged_ledger(self, block, fault) ==
    LET l0 == update_tip(self, block)
        l1 == [l0 EXCEPT !.block_tree = append_to_block_tree(@, block)]
        l2 == [l1 EXCEPT !.previous_hashes = insert_previous_hash(@, block)]
        l3 == [l2 EXCEPT !.headers = insert_header(@, block)]
        l4 == [l3 EXCEPT !.transactions = insert_transactions(@, block)]
        l5 == [l4 EXCEPT !.signatures = insert_signature(@, block)]
        fin == finalize_all(self.vm, block.transactions)
        l6 == [l5 EXCEPT !.vm = fin.vm]
        l7 == [l6 EXCEPT !.memory_pool = remove_all(@, block.transactions)]
    IN  CASE fault = "block_tree"      -> [ok |-> FALSE, error |-> "storage", ledger |-> l0]
          [] fault = "previous_hashes" -> [ok |-> FALSE, error |-> "storage", ledger |-> l1]
          [] fault = "headers"         -> [ok |-> FALSE, error |-> "storage", ledger |-> l2]
          [] fault = "transactions"    -> [ok |-> FALSE, error |-> "storage", ledger |-> l3]
          [] fault = "signatures"      -> [ok |-> FALSE, error |-> "storage", ledger |-> l4]
          [] OTHER -> IF fin.ok THEN [ok |-> TRUE, error |-> "none", ledger |-> l7]
                                ELSE [ok |-> FALSE, error |-> "finalize", ledger |-> l6]

\* A variant that mutates the ledger in place instead of a staged copy.
add_next_block_in_place(self, block, verifies, fault) ==
    IF ~check_next_block(self, block, verifies)
    THEN [ok |-> FALSE, error |-> "check", ledger |-> self]
    ELSE LET staged == staged_ledger(self, block, fault)
         IN  staged

\* The result: ok or not, where the error arose (in check_next_block, in a tree append
\* or map insert, or in vm.finalize), and the ledger after the call.
add_next_block(self, block, verifies, fault) ==
    IF ~check_next_block(self, block, verifies)
    THEN [ok |-> FALSE, error |-> "check", ledger |-> self]
    ELSE LET staged == staged_ledger(self, block, fault)
         IN  IF staged.ok THEN staged ELSE [staged EXCEPT !.ledger = self]

\* Ledger::from_genesis
from_genesis(genesis) == add_next_block(EmptyLedger, genesis, TRUE, "none")

----------------------------------------------------------------------------
(* Ledger::to_state_path.  A Merkle path is modelled by what it proves: the  *)
(* leaf, its index and the root the path recomputes to.                     *)

MerklePath(index, leaf, root) == [index |-> index, leaf |-> leaf, root |-> root]

\* BHPMerkleTree::prove(index, leaf): fails when the tree has no leaf at the (0-based)
\* index or the leaf there is another one.
prove(tree, index, leaf) ==
    [ok |-> index + 1 \in DOMAIN tree /\ tree[index + 1] = leaf,
     path |-> MerklePath(index, leaf, tree_root(tree))]

\* Transition::to_path: the transition tree has the transition id as its root.
transition_to_path(transition, leaf) ==
    MerklePath(CHOOSE i \in DOMAIN transition.commitments : transition.commitments[i] = leaf.id,
               leaf, <<"transition_id", transition.id>>)

\* Transaction::to_path: the transaction tree has the transaction id as its root.
transaction_to_path(tx, leaf) ==
    MerklePath(CHOOSE i \in DOMAIN tx.transitions : <<"transition_id", tx.transitions[i].id>> = leaf,
               leaf, <<"transaction_id", tx.id>>)

\* Transactions::to_path(index, transaction id).
transactions_to_path(txs, index, id) ==
    MerklePath(index, <<"transaction_id", id>>, transactions_to_root(txs))

\* HeaderLeaf::new(index, id) and Header::to_path.
HeaderLeaf(index, id) == [index |-> index, id |-> id]
header_to_path(header, leaf) == MerklePath(leaf.index, leaf, header_to_root(header))

\* bail!(..) and `?`: the call returns an error, and no path.
PathError(error) == [ok |-> FALSE, error |-> error, path |-> <<>>]

\* The committed transactions whose commitments contain the commitment (one entry for
\* each occurrence of the transaction in a block).
transactions_with_commitment(self, commitment) ==
    SelectSeq(committed_transactions(self), LAMBDA id : commitment \in Range(CommitmentsOf[id]))

\* The heights whose transactions contain the transaction id.
heights_with_transaction(self, id) ==
    {h \in DOMAIN self.transactions : id \in Range(self.transactions[h])}

\* A variant that takes the first such transition only.
first_transition_with_commitment(tx, commitment) ==
    LET found == {i \in DOMAIN tx.transitions : commitment \in Range(tx.transitions[i].commitments)}
    IN  IF found = {} THEN <<>>
        ELSE <<tx.transitions[CHOOSE i \in found : \A j \in found : i <= j]>>

\* The transitions of the transaction whose commitments contain the commitment.
transitions_with_commitment(tx, commitment) ==
    SelectSeq(tx.transitions, LAMBDA transition : commitment \in Range(transition.commitments))

\* A variant that proves the first leaf of the block tree.
proved_block_first(self) ==
    [height |-> 0, hash |-> IF self.block_tree = <<>> THEN ZeroHash ELSE self.block_tree[1]]

\* The block the block path is constructed for: the latest one.
proved_block(self) == [height |-> latest_height(self), hash |-> latest_hash(self)]

\* The result: ok or not, the step that returned the error, and the path: what
\* StatePath::new is given, which is taken to bundle its thirteen arguments. The leaves
\* are those of Transition::to_leaf(commitment, is_input) and
\* Transaction::to_leaf(transition id).
to_state_path(self, commitment) ==
    LET transaction == transactions_with_commitment(self, commitment) IN
    IF Len(transaction) # 1 THEN PathError("transaction") ELSE
    LET tx == Tx(transaction[1])
        heights == heights_with_transaction(self, tx.id) IN
    IF Cardinality(heights) # 1 THEN PathError("block_height") ELSE
    LET height == CHOOSE h \in heights : TRUE IN
    IF height \notin DOMAIN self.headers THEN PathError("storage") ELSE
    LET block_header == self.headers[height]
        transition == transitions_with_commitment(tx, commitment) IN
    IF Len(transition) # 1 THEN PathError("transition") ELSE
    LET transition_leaf == [id |-> commitment, is_input |-> FALSE]
        transition_path == transition_to_path(transition[1], transition_leaf)
        transaction_leaf == <<"transition_id", transition[1].id>>
        transaction_path == transaction_to_path(tx, transaction_leaf)
        txs == self.transactions[height]
        transaction_index == (CHOOSE i \in DOMAIN txs : txs[i] = tx.id) - 1
        transactions_path == transactions_to_path(txs, transaction_index, tx.id)
        header_root == header_to_root(block_header)
        header_leaf == HeaderLeaf(1, block_header.transactions_root)
        header_path == header_to_path(block_header, header_leaf)
        latest_block_height == proved_block(self).height
        latest_block_hash == proved_block(self).hash IN
    IF latest_block_height \notin DOMAIN self.previous_hashes THEN PathError("storage") ELSE
    LET previous_block_hash == self.previous_hashes[latest_block_height]
        state_root == latest_state_root(self) IN
    LET proof == prove(self.block_tree, latest_block_height, latest_block_hash) IN
    IF ~proof.ok THEN PathError("block_path") ELSE
    [ok |-> TRUE, error |-> "none",
     path |-> [state_root |-> state_root, block_path |-> proof.path,
               block_hash |-> latest_block_hash, previous_block_hash |-> previous_block_hash,
               header_root |-> header_root, header_path |-> header_path,
               header_leaf |-> header_leaf, transactions_path |-> transactions_path,
               transaction_id |-> tx.id, transaction_path |-> transaction_path,
               transaction_leaf |-> transaction_leaf, transition_path |-> transition_path,
               transition_leaf |-> transition_leaf]]

----------------------------------------------------------------------------
(* Ledger::from_maps *)

\* The four maps of a ledger, as a caller hands them to from_maps.
maps_of(self) ==
    [previous_hashes |-> self.previous_hashes, headers |-> self.headers,
     transactions |-> self.transactions, signatures |-> self.signatures]

\* The values of a height-keyed map in the order of the keys.
map_values(map) == [i \in 1..Cardinality(DOMAIN map) |-> map[SortedKeys(DOMAIN map)[i]]]

\* A variant that takes every previous hash, the first one included.
block_tree_leaves_with_first(ledger) ==
    map_values(ledger.previous_hashes) \o <<ledger.current_hash>>

\* previous_hashes.values().skip(1) chained with the current hash.
block_tree_leaves(ledger) ==
    LET values == map_values(ledger.previous_hashes)
    IN  (IF values = <<>> THEN <<>> ELSE Tail(values)) \o <<ledger.current_hash>>

\* The ledger with the genesis block inserted into its four maps.
insert_genesis(ledger, genesis) ==
    [ledger EXCEPT !.previous_hashes = insert_previous_hash(@, genesis),
                   !.headers = insert_header(@, genesis),
                   !.transactions = insert_transactions(@, genesis),
                   !.signatures = insert_signature(@, genesis)]

\* The result: ok or not, where the error arose (in get_block or in vm.finalize), and
\* the ledger.
from_maps(maps) ==
    LET ledger == [EmptyLedger EXCEPT !.previous_hashes = maps.previous_hashes,
                                      !.headers = maps.headers,
                                      !.transactions = maps.transactions,
                                      !.signatures = maps.signatures]
        none == DOMAIN ledger.previous_hashes = {}
        l1 == IF none THEN insert_genesis(ledger, GenesisBlock) ELSE ledger
        latest == IF none THEN block_height(GenesisBlock)
                  ELSE CHOOSE h \in DOMAIN ledger.previous_hashes :
                           \A k \in DOMAIN ledger.previous_hashes : k <= h
    IN  IF ~get_block_ok(l1, latest)
        THEN [ok |-> FALSE, error |-> "storage", ledger |-> l1]
        ELSE LET l2 == update_tip(l1, get_block(l1, latest))
                 l3 == [l2 EXCEPT !.block_tree = block_tree_leaves(l2)]
                 fin == finalize_all(l3.vm, committed_transactions(l3))
                 l4 == [l3 EXCEPT !.vm = fin.vm]
             IN  IF ~fin.ok THEN [ok |-> FALSE, error |-> "finalize", ledger |-> l4]
                 ELSE IF \E height \in 0..latest_height(l4) : ~get_block_ok(l4, height)
                 THEN [ok |-> FALSE, error |-> "storage", ledger |-> l4]
                 ELSE [ok |-> TRUE, error |-> "none", ledger |-> l4]

----------------------------------------------------------------------------
(* The state machine. *)

SetLedger(l) ==
    /\ current_hash' = l.current_hash
    /\ current_height' = l.current_height
    /\ current_round' = l.current_round
    /\ block_tree' = l.block_tree
    /\ previous_hashes' = l.previous_hashes
    /\ headers' = l.headers
    /\ transactions' = l.transactions
    /\ signatures' = l.signatures
    /\ memory_pool' = l.memory_pool
    /\ vm' = l.vm

Init ==
    LET l == from_genesis(GenesisBlock).ledger IN
    /\ current_hash = l.current_hash
    /\ current_height = l.current_height
    /\ current_round = l.current_round
    /\ block_tree = l.block_tree
    /\ previous_hashes = l.previous_hashes
    /\ headers = l.headers
    /\ transactions = l.transactions
    /\ signatures = l.signatures
    /\ memory_pool = l.memory_pool
    /\ vm = l.vm
    /\ result = [op |-> "from_genesis", ok |-> TRUE, error |-> "none"]
    /\ staging = Idle

\* The transaction lists a caller may put into a block of its own making (in the order
\* of their ids).
BlockTransactions ==
    {txs \in SeqsNoDup(CommitmentOriginIDs, MaxBlockTxs) :
        \A i, j \in DOMAIN txs : i < j => txs[i] < txs[j]}

\* The timestamps a caller may give a block, and the readings of the wall clock: the
\* clocks run at most one tick ahead of the latest block.
Timestamps ==
    {t \in 0..MaxTimestamp : latest_block_ok(Self) => t <= block_timestamp(latest_block(Self)) + 1}

\* The block a caller makes from the given values, on top of the current state root.
CandidateBlock(prev, round, height, timestamp, txs) ==
    Block(prev, Header(latest_state_root(Self), transactions_to_root(txs),
                       Metadata(round, height, timestamp)), txs, Signature)

\* A caller adds a transaction to the memory pool.
AddToMemoryPool ==
    \E id \in CommitmentOriginIDs :
        \E r \in {add_to_memory_pool(Self, id)} :
        /\ Len(memory_pool) < MaxPool
        /\ SetLedger(r.ledger)
        /\ result' = [op |-> "add_to_memory_pool", ok |-> r.ok,
                       error |-> IF r.ok THEN "none" ELSE "check"]
        /\ UNCHANGED staging

\* A caller asks for a candidate block: the ledger is not changed (&self).
ProposeNextBlock ==
    /\ propose_next_block_ok(Self)
    /\ result' = [op |-> "propose_next_block", ok |-> TRUE, error |-> "none"]
    /\ UNCHANGED <<ledger_vars, staging>>

\* What block.verify and the atomic section's fallible steps may do to a block that
\* passes the ledger's own checks: <<verifies, fault>>.
Outcomes == {<<TRUE, f>> : f \in Faults} \cup {<<FALSE, "none">>}

\* The result of add_next_block becomes the ledger.
Apply(block, verifies, fault) ==
    \E r \in {add_next_block(Self, block, verifies, fault)} :
    /\ SetLedger(r.ledger)
    /\ result' = [op |-> "add_next_block", ok |-> r.ok, error |-> r.error]
    /\ UNCHANGED staging

\* A caller adds a block of its own making whose previous hash, height, round and
\* timestamp pass the ledger's checks; the transactions are any.
AddNextBlock ==
    \E height \in 0..MaxHeight :
      /\ check_height(Self, height)
      /\ \E round \in 0..MaxRound :
           /\ check_round(Self, round)
           /\ \E timestamp \in Timestamps :
                /\ check_timestamp(Self, height, timestamp)
                /\ \E txs \in BlockTransactions :
                     LET block == CandidateBlock(current_hash, round, height, timestamp, txs) IN
                     IF check_transactions(Self, txs)
                     THEN \E o \in Outcomes : Apply(block, o[1], o[2])
                     ELSE Apply(block, TRUE, "none")

\* A caller adds a block (without transactions) that is wrong in exactly one of its
\* previous hash, height, round and timestamp.
AddMisplacedBlock ==
    \E prev \in {current_hash, ZeroHash}, round \in 0..MaxRound, height \in 0..MaxHeight,
       timestamp \in Timestamps :
        LET block == CandidateBlock(prev, round, height, timestamp, <<>>)
            wrong == {<<"previous_hash", ~check_previous_hash(Self, block)>>,
                      <<"height", ~check_height(Self, height)>>,
                      <<"round", ~check_round(Self, round)>>,
                      <<"timestamp", ~check_timestamp(Self, height, timestamp)>>}
        IN  /\ Cardinality({w \in wrong : w[2]}) = 1
            /\ Apply(block, TRUE, "none")

\* A caller adds the block it is given by propose_next_block, as the tests do.
AddProposedBlock ==
    \E now \in Timestamps :
        /\ propose_next_block_ok(Self)
        /\ Apply(propose_next_block(Self, now), TRUE, "none")

Next ==
    \/ AddToMemoryPool
    \/ ProposeNextBlock
    \/ AddNextBlock
    \/ AddMisplacedBlock
    \/ AddProposedBlock

Spec == Init /\ [][Next]_vars

-----------------------------------------------------------------------------
(* The callers that fill the memory pool with any transactions and commit   *)
(* pooled transactions, as the tests do, or offer a block with a state root *)
(* origin.                                                                  *)

\* A caller adds any transaction to the memory pool.
PoolTransaction ==
    \E id \in TransactionIDs :
        \E r \in {add_to_memory_pool(Self, id)} :
        /\ Len(memory_pool) < MaxPooled
        /\ SetLedger(r.ledger)
        /\ result' = [op |-> "add_to_memory_pool", ok |-> r.ok,
                       error |-> IF r.ok THEN "none" ELSE "check"]
        /\ UNCHANGED staging

\* The block a caller makes of the given transactions for the next height and round.
NextBlock(timestamp, txs) ==
    CandidateBlock(current_hash, current_round + 1, current_height + 1, timestamp, txs)

\* A caller adds a block of its own making that holds one pooled transaction.
AddPooledTransaction ==
    \E id \in Range(memory_pool), timestamp \in Timestamps :
        Apply(NextBlock(timestamp, <<id>>), TRUE, "none")

\* The blocks for the next height and round with a transaction that has a state root
\* origin, alone or after another transaction.
StateRootBlocks ==
    {NextBlock(timestamp, txs) :
        timestamp \in {t \in Timestamps : check_timestamp(Self, current_height + 1, t)},
        txs \in {<<id>> : id \in StateRootOriginIDs}
                \cup {<<other, id>> : other \in CommitmentOriginIDs, id \in StateRootOriginIDs}}

\* A caller adds such a block.
AddStateRootBlock ==
    \E block \in StateRootBlocks : Apply(block, TRUE, "none")

PoolNext ==
    \/ PoolTransaction
    \/ AddPooledTransaction
    \/ AddStateRootBlock
    \/ AddProposedBlock

PoolSpec == Init /\ [][PoolNext]_vars

-----------------------------------------------------------------------------
(* The callers that restart the ledger from dumps of the four maps and ask  *)
(* for state paths.                                                         *)

\* The maps violate the parent-hash assumption: at some height h >= 1 the previous hash
\* is not the hash of the block the maps hold at height h - 1.
violates_parent_hash(maps) ==
    \E h \in DOMAIN maps.previous_hashes :
        /\ h >= 1
        /\ get_block_ok(maps, h - 1)
        /\ maps.previous_hashes[h] # block_hash(get_block(maps, h - 1))

\* The dumps of the ledger with the previous hash of one height above genesis replaced
\* by the default hash.
CorruptedMaps(self) ==
    {[maps_of(self) EXCEPT !.previous_hashes[h] = ZeroHash] :
        h \in DOMAIN self.previous_hashes \ {0}}

\* Four empty maps.
EmptyMaps == maps_of(EmptyLedger)

\* The dumps of the ledger with one more block that no ledger has checked: a block
\* with a transaction that add_next_block rejects.
UncheckedMaps(self) ==
    LET UncheckedTransactions ==
            {txs \in SeqsNoDup(TransactionIDs, MaxBlockTxs) :
                /\ \E i \in DOMAIN txs : txs[i] \in StateRootOriginIDs
                /\ \A i, j \in DOMAIN txs : i < j => txs[i] < txs[j]}
    IN
    {maps_of([self EXCEPT !.previous_hashes = insert_previous_hash(@, block),
                          !.headers = insert_header(@, block),
                          !.transactions = insert_transactions(@, block),
                          !.signatures = insert_signature(@, block)]) :
        block \in {NextBlock(timestamp, txs) :
                      timestamp \in {t \in Timestamps : check_timestamp(self, current_height + 1, t)},
                      txs \in UncheckedTransactions}}

\* The dumps a caller may hand to from_maps: none, those of the ledger, and those with
\* a wrong previous hash, a missing header or an unchecked block.
Dumps ==
    {EmptyMaps, maps_of(Self)} \cup CorruptedMaps(Self)
        \cup {[maps_of(Self) EXCEPT !.headers = [k \in DOMAIN headers \ {h} |-> headers[k]]] :
                 h \in DOMAIN headers}
        \cup (IF current_height < MaxHeight THEN UncheckedMaps(Self) ELSE {})

\* A caller restarts the ledger from dumps: the ledger from_maps returns takes the
\* place of the ledger.
FromMaps ==
    \E maps \in Dumps :
        \E r \in {from_maps(maps)} :
        /\ IF r.ok THEN SetLedger(r.ledger) ELSE UNCHANGED ledger_vars
        /\ result' = [op |-> "from_maps", ok |-> r.ok, error |-> r.error, maps |-> maps]
        /\ UNCHANGED staging

\* A caller asks for the state path of a commitment of one of the transactions: the
\* ledger is not changed (&self).
ToStatePath ==
    \E commitment \in Yields(SortedKeys(TransactionIDs), CommitmentsOf) :
        \E r \in {to_state_path(Self, commitment)} :
        /\ result' = [op |-> "to_state_path", ok |-> r.ok, error |-> r.error,
                       commitment |-> commitment, path |-> r.path]
        /\ UNCHANGED <<ledger_vars, staging>>

ReplayNext ==
    \/ PoolTransaction
    \/ AddPooledTransaction
    \/ FromMaps
    \/ ToStatePath

ReplaySpec == Init /\ [][ReplayNext]_vars

-----------------------------------------------------------------------------
(* Response::verify (circuit/program/src/response/verify.rs).  Hashes and   *)
(* commitments are injective constructors, as above.                        *)

\* The outputs: a plaintext or a record (CircuitValue::Plaintext, CircuitValue::Record).
Plaintext(value) == [kind |-> "Plaintext", value |-> value]
Record(value)    == [kind |-> "Record", value |-> value]

\* to_bits_le of an output or of an encrypted record.
to_bits_le(value) == <<"bits", value>>

\* A::hash_bhp1024, A::hash_to_scalar_psd2, A::commit_bhp1024
hash_bhp1024(bits) == <<"bhp1024", bits>>
hash_to_scalar_psd2(fields) == <<"psd2", fields>>
commit_bhp1024(bits, randomizer) == <<"commit_bhp1024", bits, randomizer>>

\* Record::to_commitment, Record::encrypt, and A::g_scalar_multiply(..).to_x_coordinate()
record_to_commitment(record, randomizer) == <<"record_commitment", record.value, randomizer>>
record_encrypt(record, randomizer) == <<"encrypted_record", record.value, randomizer>>
g_scalar_multiply_x(randomizer) == <<"x_coordinate", <<"g", randomizer>>>>

\* The output ids.
OutputConstant(expected_hash) == [variant |-> "Constant", hash |-> expected_hash]
OutputPublic(expected_hash)   == [variant |-> "Public", hash |-> expected_hash]
OutputPrivate(output_index, expected_cm) ==
    [variant |-> "Private", index |-> output_index, commitment |-> expected_cm]
OutputRecord(output_index, expected_cm, expected_nonce, expected_checksum) ==
    [variant |-> "Record", index |-> output_index, commitment |-> expected_cm,
     nonce |-> expected_nonce, checksum |-> expected_checksum]

\* The outcome of one closure call or of the whole fold: halted (A::halt, no value), or
\* the boolean.
Halt == [halted |-> TRUE, value |-> FALSE]
Boolean(b) == [halted |-> FALSE, value |-> b]

\* OutputID::Constant and OutputID::Public: the hash of the output against the expected.
verify_hash(output_id, output) ==
    Boolean(hash_bhp1024(to_bits_le(output)) = output_id.hash)

\* OutputID::Private: the commitment of the output under HashToScalar(tvk || index).
verify_private(output_id, output, tvk) ==
    LET randomizer == hash_to_scalar_psd2(<<tvk, output_id.index>>)
        commitment == commit_bhp1024(to_bits_le(output), randomizer)
    IN  Boolean(commitment = output_id.commitment)

\* A variant that does not compare the checksum.
verify_record_without_checksum(output_id, output, tvk) ==
    IF output.kind = "Plaintext" THEN Halt
    ELSE LET randomizer == hash_to_scalar_psd2(<<tvk, output_id.index>>)
         IN  Boolean(/\ record_to_commitment(output, randomizer) = output_id.commitment
                     /\ g_scalar_multiply_x(randomizer) = output_id.nonce)

\* OutputID::Record: the output must be a record; its commitment, nonce and checksum
\* against the expected ones.
verify_record(output_id, output, tvk) ==
    IF output.kind = "Plaintext" THEN Halt
    ELSE LET record == output
             randomizer == hash_to_scalar_psd2(<<tvk, output_id.index>>)
             commitment == record_to_commitment(record, randomizer)
             nonce == g_scalar_multiply_x(randomizer)
             encrypted_record == record_encrypt(record, randomizer)
             checksum == hash_bhp1024(to_bits_le(encrypted_record))
         IN  Boolean(/\ commitment = output_id.commitment
                     /\ nonce = output_id.nonce
                     /\ checksum = output_id.checksum)

\* The closure of the map: match output_id { .. }
verify_output(output_id, output, tvk) ==
    CASE output_id.variant = "Constant" -> verify_hash(output_id, output)
      [] output_id.variant = "Public"   -> verify_hash(output_id, output)
      [] output_id.variant = "Private"  -> verify_private(output_id, output, tvk)
      [] output_id.variant = "Record"   -> verify_record(output_id, output, tvk)

RECURSIVE fold_until_false(_, _, _, _)
\* A variant that stops at the first pair that fails its check.
fold_until_false(output_ids, outputs, tvk, acc) ==
    IF output_ids = <<>> \/ ~acc THEN Boolean(acc)
    ELSE LET x == verify_output(Head(output_ids), Head(outputs), tvk)
         IN  IF x.halted THEN Halt
             ELSE fold_until_false(Tail(output_ids), Tail(outputs), tvk, acc /\ x.value)

RECURSIVE fold(_, _, _, _)
\* .map(..).fold(Boolean::constant(true), |acc, x| acc & x): every pair is evaluated, in
\* order, until one halts.
fold(output_ids, outputs, tvk, acc) ==
    IF output_ids = <<>> THEN Boolean(acc)
    ELSE LET x == verify_output(Head(output_ids), Head(outputs), tvk)
         IN  IF x.halted THEN Halt
             ELSE fold(Tail(output_ids), Tail(outputs), tvk, acc /\ x.value)

\* Response::verify
verify(self, tvk) == fold(self.output_ids, self.outputs, tvk, TRUE)

\* The transition view keys and outputs of the model; every output has index 0.
ViewKeys == {0, 1}
Outputs == {Plaintext(0), Record(0)}

\* The output ids of the model: the ids a response maker derives for an output under
\* a view key, and the record ids whose expected commitment, nonce and checksum are
\* derived under view keys of their own.
OutputIDs ==
    {OutputConstant(hash_bhp1024(to_bits_le(o))) : o \in Outputs}
    \cup {OutputPublic(hash_bhp1024(to_bits_le(o))) : o \in Outputs}
    \cup {OutputPrivate(i, commit_bhp1024(to_bits_le(o), hash_to_scalar_psd2(<<k, i>>))) :
            i \in {0}, o \in Outputs, k \in ViewKeys}
    \cup {OutputRecord(i, record_to_commitment(Record(0), hash_to_scalar_psd2(<<k[1], i>>)),
                       g_scalar_multiply_x(hash_to_scalar_psd2(<<k[2], i>>)),
                       hash_bhp1024(to_bits_le(record_encrypt(Record(0),
                                                              hash_to_scalar_psd2(<<k[3], i>>))))) :
            i \in {0}, k \in ViewKeys \X ViewKeys \X ViewKeys}

\* The responses of the model with n outputs: as many output ids as outputs.
Responses(n) ==
    {[output_ids |-> ids, outputs |-> outs] : ids \in [1..n -> OutputIDs], outs \in [1..n -> Outputs]}

\* A response and a transition view key are given; the ledger is the genesis ledger.
VerifyInit ==
    /\ \E l \in {from_genesis(GenesisBlock).ledger} :
           /\ current_hash = l.current_hash
           /\ current_height = l.current_height
           /\ current_round = l.current_round
           /\ block_tree = l.block_tree
           /\ previous_hashes = l.previous_hashes
           /\ headers = l.headers
           /\ transactions = l.transactions
           /\ signatures = l.signatures
           /\ memory_pool = l.memory_pool
           /\ vm = l.vm
    /\ staging = Idle
    /\ \E n \in 0..MaxOutputs, tvk \in ViewKeys :
           \E response \in Responses(n) :
               result = [op |-> "response", ok |-> TRUE, error |-> "none",
                         response |-> response, tvk |-> tvk]

\* The response is verified.
Verify ==
    /\ result.op = "response"
    /\ \E r \in {verify(result.response, result.tvk)} :
           result' = [op |-> "verify", ok |-> ~r.halted,
                      error |-> IF r.halted THEN "halt" ELSE "none",
                      response |-> result.response, tvk |-> result.tvk, value |-> r.value]
    /\ UNCHANGED <<ledger_vars, staging>>

VerifySpec == VerifyInit /\ [][Verify]_vars

-----------------------------------------------------------------------------
(* Ledger::add_next_block statement by statement: the atomic section works  *)
(* on a staged copy of the ledger and assigns it to self at its end.        *)

\* The statements of the atomic section after the clone, in order.
Steps == <<"tip", "block_tree", "previous_hashes", "headers", "transactions", "signatures",
           "finalize", "memory_pool", "swap">>

\* The statement after the given one.
NextStep(pc) == Steps[(CHOOSE i \in DOMAIN Steps : Steps[i] = pc) + 1]

\* A variant in which the staged copy is self itself: a write to it is a write to self.
self_written_through(self, ledger) == ledger

\* let mut ledger = self.clone(): the staged copy is a value of its own, and self after
\* a write to the copy is what it was.
self_after_write(self, ledger) == self

\* One statement on the staged copy: ok or not, where the error arose, and the copy
\* after it.
stage(ledger, block, pc) ==
    CASE pc = "tip" -> [ok |-> TRUE, error |-> "none", ledger |-> update_tip(ledger, block)]
      [] pc = "block_tree" ->
             [ok |-> TRUE, error |-> "none",
              ledger |-> [ledger EXCEPT !.block_tree = append_to_block_tree(@, block)]]
      [] pc = "previous_hashes" ->
             [ok |-> TRUE, error |-> "none",
              ledger |-> [ledger EXCEPT !.previous_hashes = insert_previous_hash(@, block)]]
      [] pc = "headers" ->
             [ok |-> TRUE, error |-> "none",
              ledger |-> [ledger EXCEPT !.headers = insert_header(@, block)]]
      [] pc = "transactions" ->
             [ok |-> TRUE, error |-> "none",
              ledger |-> [ledger EXCEPT !.transactions = insert_transactions(@, block)]]
      [] pc = "signatures" ->
             [ok |-> TRUE, error |-> "none",
              ledger |-> [ledger EXCEPT !.signatures = insert_signature(@, block)]]
      [] pc = "finalize" ->
             LET fin == finalize_all(ledger.vm, block.transactions)
             IN  [ok |-> fin.ok, error |-> IF fin.ok THEN "none" ELSE "finalize",
                  ledger |-> [ledger EXCEPT !.vm = fin.vm]]
      [] pc = "memory_pool" ->
             [ok |-> TRUE, error |-> "none",
              ledger |-> [ledger EXCEPT !.memory_pool = remove_all(@, block.transactions)]]

\* The transaction lists of the blocks a caller offers: the pooled transactions, one of
\* them, or none.
PooledTransactions ==
    {memory_pool, <<>>} \cup {<<id>> : id \in Range(memory_pool)}

\* A caller adds a transaction to the memory pool; the ledger has one writer at a time
\* (&mut self).
AddToMemoryPoolWhenIdle ==
    /\ staging = Idle
    /\ AddToMemoryPool

\* add_next_block is called: the block is checked and the ledger is cloned.
BeginAddNextBlock ==
    /\ staging = Idle
    /\ \E now \in Timestamps, txs \in PooledTransactions :
           LET block == NextBlock(now, txs) IN
           IF check_next_block(Self, block, TRUE)
           THEN /\ staging' = [pc |-> "tip", block |-> block, ledger |-> Self]
                /\ UNCHANGED <<ledger_vars, result>>
           ELSE /\ result' = [op |-> "add_next_block", ok |-> FALSE, error |-> "check"]
                /\ UNCHANGED <<ledger_vars, staging>>

\* The next statement of the atomic section succeeds.
StageStep ==
    /\ staging.pc \notin {"idle", "swap"}
    /\ \E r \in {stage(staging.ledger, staging.block, staging.pc)} :
           /\ r.ok
           /\ staging' = [staging EXCEPT !.pc = NextStep(@), !.ledger = r.ledger]
           /\ SetLedger(self_after_write(Self, r.ledger))
    /\ UNCHANGED result

\* The next statement returns an error (`?`), and with it add_next_block: the tree
\* append or a map insert fails, or vm.finalize does.
FailStep ==
    /\ staging.pc \notin {"idle", "swap"}
    /\ \E r \in {stage(staging.ledger, staging.block, staging.pc)} :
           /\ \/ staging.pc \in {"block_tree", "previous_hashes", "headers", "transactions",
                                  "signatures"}
              \/ ~r.ok
           /\ result' = [op |-> "add_next_block", ok |-> FALSE,
                          error |-> IF r.ok THEN "storage" ELSE r.error]
           /\ SetLedger(self_after_write(Self, staging.ledger))
    /\ staging' = Idle

\* *self = Self { .. }: the staged copy becomes the ledger, and add_next_block returns.
Swap ==
    /\ staging.pc = "swap"
    /\ SetLedger(staging.ledger)
    /\ staging' = Idle
    /\ result' = [op |-> "add_next_block", ok |-> TRUE, error |-> "none"]

CommitNext ==
    \/ AddToMemoryPoolWhenIdle
    \/ BeginAddNextBlock
    \/ StageStep
    \/ FailStep
    \/ Swap

CommitSpec == Init /\ [][CommitNext]_vars

-----------------------------------------------------------------------------
(* Properties of the ledger *)

\* The heights that hold a committed block, and their transactions' yields.
Heights == DOMAIN headers
TimestampAt(h) == headers[h].metadata.timestamp
RoundAt(h) == headers[h].metadata.round
CommittedAndPooled == committed_transactions(Self) \o memory_pool

\* The place of a transaction in the iteration over the memory pool.
PlaceOf(pool, id) == CHOOSE k \in DOMAIN pool : pool[k] = id

\* The blocks propose_next_block may return in this state.
ProposedBlocks ==
    IF propose_next_block_ok(Self)
    THEN {propose_next_block(Self, now) : now \in Timestamps}
    ELSE {}

\* C1: whenever add_next_block returns an error (from check_next_block, the block-tree
\* append, a map insert or vm.finalize), every part of the ledger is what it was before
\* the call: the tip, the block tree, the four maps, the VM and the memory pool.
C1_FailedAddKeepsLedger ==
    [][(result'.op = "add_next_block" /\ ~result'.ok) => UNCHANGED ledger_vars]_vars

\* A call failed in vm.finalize, after the staged copy had taken the block, on a
\* ledger that holds blocks above genesis and a pooled transaction.
C1_Witness ==
    /\ result = [op |-> "add_next_block", ok |-> FALSE, error |-> "finalize"]
    /\ current_height > 0
    /\ memory_pool # <<>>

\* C2: in every reachable state current_hash is the hash of the block reassembled from
\* the four maps at current_height.
C2_TipHashIsBlockHash ==
    /\ get_block_ok(Self, current_height)
    /\ current_hash = block_hash(get_block(Self, current_height))

\* A block stands on genesis, a transaction is pooled, and the last call, an
\* add_next_block, failed in a tree append or map insert.
C2_Witness ==
    /\ current_height > 0
    /\ memory_pool # <<>>
    /\ result = [op |-> "add_next_block", ok |-> FALSE, error |-> "storage"]

\* C3: every successful add_next_block on a ledger that holds a genesis block (also one
\* whose current_height is 0) makes current_height the old current_height + 1.
C3_HeightsIncreaseByOne ==
    [][(result'.op = "add_next_block" /\ result'.ok) => current_height' = current_height + 1]_vars

\* C4: every height h with 0 <= h <= current_height is a key of each of the four maps,
\* so get_block(h) succeeds.
C4_MapsHoldEveryHeight ==
    \A h \in 0..current_height : get_block_ok(Self, h)

\* C5: of two committed blocks the one at the greater height has the greater round.
C5_RoundsIncrease ==
    \A h1, h2 \in Heights : h1 < h2 => RoundAt(h2) > RoundAt(h1)

\* C6: a block of height > 0 whose timestamp is at most the tip's is rejected, so of
\* two committed blocks the one at the greater height has the greater timestamp.
C6_TimestampsIncrease ==
    \A h1, h2 \in Heights : h1 < h2 => TimestampAt(h2) > TimestampAt(h1)

\* Two blocks stand on genesis, and the block that is a valid next block but for its
\* timestamp, which is the tip's, is rejected.
C6_Witness ==
    /\ Cardinality(Heights) >= 3
    /\ LET block == CandidateBlock(current_hash, current_round + 1, current_height + 1,
                                   TimestampAt(current_height), <<>>)
       IN  /\ check_previous_hash(Self, block)
           /\ check_height(Self, block_height(block))
           /\ check_round(Self, block_round(block))
           /\ ~add_next_block(Self, block, TRUE, "none").ok

\* C7: over all committed blocks there are no duplicate transaction ids, transition
\* public keys, serial numbers, commitments or nonces, also not between two
\* transactions of one block.
C7_CommittedHaveNoDuplicates ==
    LET txs == committed_transactions(Self)
    IN  /\ NoDuplicates(txs)
        /\ NoDuplicates(txs_transition_public_keys(txs))
        /\ NoDuplicates(txs_serial_numbers(txs))
        /\ NoDuplicates(txs_commitments(txs))
        /\ NoDuplicates(txs_nonces(txs))

\* C8: each transaction id appears at most once across the committed blocks and the
\* memory pool taken together.
C8_TransactionIdsAreUnique ==
    NoDuplicates(CommittedAndPooled)

\* A pooled transaction was committed and left the pool, another is pooled.
C8_Witness ==
    /\ memory_pool # <<>>
    /\ result = [op |-> "add_next_block", ok |-> TRUE, error |-> "none"]
    /\ \E h \in Heights : h > 0 /\ transactions[h] # <<>>

\* C8 as stated: each transaction id, transition public key, serial number, commitment
\* and nonce appears at most once across the committed blocks and the memory pool.
\* It is stated for the states whose committed blocks have no duplicates themselves,
\* so that a violation lies with the memory pool.
C8_CommittedAndPooledHaveNoDuplicates ==
    C7_CommittedHaveNoDuplicates =>
        /\ NoDuplicates(CommittedAndPooled)
        /\ NoDuplicates(txs_transition_public_keys(CommittedAndPooled))
        /\ NoDuplicates(txs_serial_numbers(CommittedAndPooled))
        /\ NoDuplicates(txs_commitments(CommittedAndPooled))
        /\ NoDuplicates(txs_nonces(CommittedAndPooled))

\* C9: the leaf of block_tree at index h is the hash of the block at height h, for
\* every h in 0..current_height, and there are no other leaves.
C9_LeavesAreBlockHashesByHeight ==
    /\ Len(block_tree) = current_height + 1
    /\ \A h \in 0..current_height :
           /\ get_block_ok(Self, h)
           /\ block_tree[h + 1] = block_hash(get_block(Self, h))

\* C10: every Origin::Commitment(c) of a committed block's transactions is a commitment
\* of a block committed before it; a block with an origin that is not yet committed,
\* or that only the block itself produces, is not added.
C10_OriginsWereCommittedBefore ==
    \A h \in Heights :
        \A origin \in Yields(transactions[h], OriginsOf) :
            origin.kind = "Commitment" =>
                \E h0 \in Heights :
                    /\ h0 < h
                    /\ origin.value \in Yields(transactions[h0], CommitmentsOf)

\* A committed transaction spends a commitment of a block above genesis, and the last
\* call was an add_next_block that check_next_block rejected.
C10_Witness ==
    /\ \E h \in Heights : \E origin \in Yields(transactions[h], OriginsOf) :
           \E h0 \in Heights \ {0} :
               h0 < h /\ origin.value \in Yields(transactions[h0], CommitmentsOf)
    /\ result = [op |-> "add_next_block", ok |-> FALSE, error |-> "check"]


\* C11: check_next_block and add_next_block return an error for every block with an
\* origin that is a state root, and the ledger is what it was before the call.
C11_StateRootBlocksAreRejected ==
    \A block \in StateRootBlocks
                 \cup {b \in ProposedBlocks : Range(b.transactions) \cap StateRootOriginIDs # {}} :
        /\ ~check_next_block(Self, block, TRUE)
        /\ \A fault \in Faults :
               add_next_block(Self, block, TRUE, fault)
                   = [ok |-> FALSE, error |-> "check", ledger |-> Self]

\* A transaction with a state root origin is pooled on top of a block above genesis,
\* and the last call, an add_next_block, was rejected by check_next_block.
C11_Witness ==
    /\ Range(memory_pool) \cap StateRootOriginIDs # {}
    /\ current_height > 0
    /\ result = [op |-> "add_next_block", ok |-> FALSE, error |-> "check"]


\* C12: add_to_memory_pool(tx) fails exactly when tx.id is a key of the memory pool or
\* a transition public key, serial number, commitment or nonce of tx is one of a
\* committed transaction; otherwise tx is in the pool afterwards, whatever it shares
\* with the pooled transactions. On failure the ledger is unchanged.
C12_AddToMemoryPoolFailsOnCommittedOnly ==
    \A id \in TransactionIDs :
        LET committed == committed_transactions(Self)
            fails == \/ id \in Range(memory_pool)
                     \/ Shared(<<id>>, committed, TransitionPublicKeysOf) # {}
                     \/ Shared(<<id>>, committed, SerialNumbersOf) # {}
                     \/ Shared(<<id>>, committed, CommitmentsOf) # {}
                     \/ Shared(<<id>>, committed, NoncesOf) # {}
            r == add_to_memory_pool(Self, id)
        IN  /\ r.ok <=> ~fails
            /\ r.ok => /\ id \in Range(r.ledger.memory_pool)
                       /\ Range(memory_pool) \subseteq Range(r.ledger.memory_pool)
            /\ ~r.ok => r.ledger = Self

\* Two pooled transactions spend the same record, and the last call, an
\* add_to_memory_pool, succeeded.
C12_Witness ==
    /\ \E i, j \in DOMAIN memory_pool :
           i # j /\ Shared(<<memory_pool[i]>>, <<memory_pool[j]>>, SerialNumbersOf) # {}
    /\ result = [op |-> "add_to_memory_pool", ok |-> TRUE, error |-> "none"]

\* C13: add_to_memory_pool returns an error for every transaction that a block has
\* committed, in every state after the commit.
C13_CommittedTransactionIsNotPooled ==
    \A id \in Range(committed_transactions(Self)) :
        add_to_memory_pool(Self, id) = [ok |-> FALSE, ledger |-> Self]

\* A deployment and an execution are committed above genesis, and the last call, an
\* add_to_memory_pool, failed.
C13_Witness ==
    /\ \E h1, h2 \in Heights \ {0} :
           /\ \E id \in Range(transactions[h1]) : Tx(id).kind = "deploy"
           /\ \E id \in Range(transactions[h2]) : Tx(id).kind = "execute"
    /\ result = [op |-> "add_to_memory_pool", ok |-> FALSE, error |-> "check"]

\* C14: after a successful add_next_block(block) no transaction id of the block is a
\* key of the memory pool, and every other pooled transaction is still pooled.
C14_CommittedLeaveThePool ==
    [][(result'.op = "add_next_block" /\ result'.ok) =>
          Range(memory_pool') = Range(memory_pool) \ Range(transactions'[current_height'])]_vars

\* A block with a pooled transaction was added and another transaction is still pooled.
C14_Witness ==
    /\ result = [op |-> "add_next_block", ok |-> TRUE, error |-> "none"]
    /\ current_height > 0
    /\ transactions[current_height] # <<>>
    /\ memory_pool # <<>>

\* C15: the transactions of the block propose_next_block returns are the pooled
\* transactions in the order in which add_to_memory_pool added them, also after
\* add_next_block has removed some of them: no step changes the relative order of two
\* transactions that stay pooled, and a transaction that is new in the pool comes after
\* all that were pooled before.
C15_ProposedInInsertionOrder ==
    [][\A before \in {b.transactions : b \in ProposedBlocks} :
       \A after \in {b.transactions : b \in ProposedBlocks'} :
          \A i, j \in DOMAIN after :
              (i < j /\ after[j] \in Range(before)) =>
                  /\ after[i] \in Range(before)
                  /\ PlaceOf(before, after[i]) < PlaceOf(before, after[j])]_vars

\* C16: propose_next_block returns a block whose previous hash is current_hash, whose
\* height and round are current_height + 1 and current_round + 1, whose header holds
\* the ledger's state root and the root of the block's transactions, and which holds
\* every pooled transaction; the call leaves the ledger unchanged.
C16_ProposedBlockIsNext ==
    /\ [](/\ propose_next_block_ok(Self)
          /\ \A now \in Timestamps :
                LET block == propose_next_block(Self, now)
                IN  /\ block.previous_hash = current_hash
                    /\ block_height(block) = current_height + 1
                    /\ block_round(block) = current_round + 1
                    /\ block.header.previous_state_root = tree_root(block_tree)
                    /\ block.header.transactions_root = transactions_to_root(block.transactions)
                    /\ Range(memory_pool) \subseteq Range(block.transactions))
    /\ [][result'.op = "propose_next_block" => UNCHANGED ledger_vars]_vars

\* propose_next_block was called with two transactions pooled, on a block above
\* genesis.
C16_Witness ==
    /\ result = [op |-> "propose_next_block", ok |-> TRUE, error |-> "none"]
    /\ Len(memory_pool) = 2
    /\ current_height > 0

\* C17: if two pooled transactions share a transition public key, serial number,
\* commitment or nonce, check_next_block rejects the block that propose_next_block
\* builds from the pool.
C17_SharedInPoolIsRejectedAtCommit ==
    (\E i, j \in DOMAIN memory_pool :
        /\ i # j
        /\ \E of \in {TransitionPublicKeysOf, SerialNumbersOf, CommitmentsOf, NoncesOf} :
              Shared(<<memory_pool[i]>>, <<memory_pool[j]>>, of) # {})
    => \A block \in ProposedBlocks : ~check_next_block(Self, block, TRUE)

\* C18: previous_hashes[h + 1] is the hash of the committed block at height h, for
\* every h with 0 <= h < current_height.
C18_ChainIsHashLinked ==
    \A h \in 0..(current_height - 1) :
        /\ h + 1 \in DOMAIN previous_hashes
        /\ get_block_ok(Self, h)
        /\ previous_hashes[h + 1] = block_hash(get_block(Self, h))

\* C19: the entries of the four maps at a committed height never change, and a block
\* that is added has a height and a hash that were not committed before.
C19_CommittedBlocksAreImmutable ==
    [][/\ \A h \in Heights :
             /\ h \in DOMAIN headers'
             /\ previous_hashes'[h] = previous_hashes[h]
             /\ headers'[h] = headers[h]
             /\ transactions'[h] = transactions[h]
             /\ signatures'[h] = signatures[h]
       /\ (result'.op = "add_next_block" /\ result'.ok) =>
             /\ ~contains_height(Self, current_height')
             /\ ~contains_block_hash(Self, current_hash')]_vars

\* Two blocks stand on genesis, a transaction is pooled, and the last call, an
\* add_next_block, was rejected by check_next_block.
C19_Witness ==
    /\ Cardinality(Heights) >= 3
    /\ memory_pool # <<>>
    /\ result = [op |-> "add_next_block", ok |-> FALSE, error |-> "check"]

\* C20: a block hash, height, transaction id, transition public key, serial number,
\* commitment or nonce that the ledger reports as contained is reported as contained
\* after every step.
C20_IndicesOnlyGrow ==
    [][\* the answers are read from the four maps: a step that leaves them alone
       \* leaves every answer alone
       \/ UNCHANGED <<previous_hashes, headers, transactions, signatures>>
       \/ \A before \in {Self}, after \in {Self'} :
        /\ \A h \in 0..current_height :
              /\ contains_height(before, h) => contains_height(after, h)
              /\ get_block_ok(before, h) =>
                     contains_block_hash(after, block_hash(get_block(before, h)))
        /\ \A id \in TransactionIDs :
              /\ contains_transaction_id(before, id) => contains_transaction_id(after, id)
              /\ \A tpk \in Range(TransitionPublicKeysOf[id]) :
                     contains_transition_public_key(before, tpk)
                         => contains_transition_public_key(after, tpk)
              /\ \A sn \in Range(SerialNumbersOf[id]) :
                     contains_serial_number(before, sn) => contains_serial_number(after, sn)
              /\ \A cm \in Range(CommitmentsOf[id]) :
                     contains_commitment(before, cm) => contains_commitment(after, cm)
              /\ \A nonce \in Range(NoncesOf[id]) :
                     contains_nonce(before, nonce) => contains_nonce(after, nonce)]_vars

\* Two blocks with transactions stand on genesis, and the last call added a
\* transaction to the memory pool.
C20_Witness ==
    /\ Cardinality({h \in Heights : transactions[h] # <<>>}) >= 3
    /\ result = [op |-> "add_to_memory_pool", ok |-> TRUE, error |-> "none"]

\* The commitments of the committed transactions.
CommittedCommitments == Yields(committed_transactions(Self), CommitmentsOf)

\* The components of a state path chain from the commitment up to the state root: each
\* path proves its leaf under the root that is the leaf (or the hashed part) of the next.
Chains(path, commitment) ==
    /\ path.transition_leaf.id = commitment
    /\ path.transition_path.leaf = path.transition_leaf
    /\ path.transition_path.root = path.transaction_leaf
    /\ path.transaction_path.leaf = path.transaction_leaf
    /\ path.transaction_path.root = <<"transaction_id", path.transaction_id>>
    /\ path.transactions_path.leaf = <<"transaction_id", path.transaction_id>>
    /\ path.transactions_path.root = path.header_leaf.id
    /\ path.header_path.leaf = path.header_leaf
    /\ path.header_path.root = path.header_root
    /\ path.block_hash = <<"block_hash", path.previous_block_hash, path.header_root, Signature>>
    /\ path.block_path.leaf = path.block_hash
    /\ path.block_path.root = path.state_root

\* C22: in every reachable state, for every commitment of every committed block,
\* to_state_path succeeds and returns a path whose components chain from the commitment
\* leaf to the current state root: the header root and the previous hash are those
\* hashed into the block hash, and the block path proves the block hash under
\* latest_state_root.
C22_StatePathsAreSound ==
    \A c \in CommittedCommitments :
        \E r \in {to_state_path(Self, c)} :
            /\ r.ok
            /\ r.path.state_root = latest_state_root(Self)
            /\ Chains(r.path, c)

\* C23: in every state reached from the genesis ledger by successful add_next_block
\* calls, from_maps applied to the ledger's four maps succeeds and yields a ledger with
\* the same current_hash, current_height, current_round and state root.
C23_ReplayIsEquivalent ==
    \E r \in {from_maps(maps_of(Self))} :
        /\ r.ok
        /\ r.ledger.current_hash = current_hash
        /\ r.ledger.current_height = current_height
        /\ r.ledger.current_round = current_round
        /\ latest_state_root(r.ledger) = latest_state_root(Self)

\* C25: from_maps returns an error whenever the maps it is given violate the parent-hash
\* assumption (a height h >= 1 whose previous hash is not the hash of the block stored
\* at height h - 1).
C25_FromMapsRejectsBrokenChain ==
    \A maps \in CorruptedMaps(Self) :
        violates_parent_hash(maps) => ~from_maps(maps).ok

\* C21: to_state_path(c) returns an error, and no path, when the number of committed
\* transactions that create c is not one (in particular when only pooled transactions
\* create c), when the number of heights that hold the transaction is not one, or when
\* the number of its transitions that create c is not one.
C21_StatePathFailsUnlessUnique ==
    result.op = "to_state_path" =>
        LET c == result.commitment
            \* the places <<height, index>> of the committed transactions that create c
            holders ==
                UNION {{<<h, i>> : i \in {k \in DOMAIN transactions[h] :
                                            c \in Range(CommitmentsOf[transactions[h][k]])}} :
                       h \in DOMAIN transactions}
            \* the heights whose block holds the transaction
            HeightsOf(id) == {h \in DOMAIN transactions : id \in Range(transactions[h])}
            \* the transitions of the transaction that create c
            CreatorsOf(id) ==
                {k \in DOMAIN Tx(id).transitions : c \in Range(Tx(id).transitions[k].commitments)}
        IN  (\/ Cardinality(holders) # 1
             \/ \E p \in holders : Cardinality(HeightsOf(transactions[p[1]][p[2]])) # 1
             \/ \E p \in holders : Cardinality(CreatorsOf(transactions[p[1]][p[2]])) # 1)
            => ~result.ok /\ result.path = <<>>

\* A state path was asked for a commitment that only a pooled transaction creates, on a
\* ledger with blocks above genesis, and the call returned an error.
C21_Witness ==
    /\ result.op = "to_state_path"
    /\ ~result.ok
    /\ result.commitment \in Yields(memory_pool, CommitmentsOf)
    /\ result.commitment \notin CommittedCommitments
    /\ current_height > 0

\* C24: from_maps called with four empty maps yields the ledger from_genesis(genesis)
\* yields: latest height 0, latest hash the hash of genesis, latest round that of
\* genesis, get_block(0) = genesis, and a block tree whose only leaf is the genesis hash.
C24_EmptyMapsGiveGenesisLedger ==
    (result.op = "from_maps" /\ result.maps = EmptyMaps) =>
        /\ result.ok
        /\ Self = from_genesis(GenesisBlock).ledger
        /\ latest_height(Self) = block_height(GenesisBlock)
        /\ latest_height(Self) = 0
        /\ latest_hash(Self) = block_hash(GenesisBlock)
        /\ latest_round(Self) = block_round(GenesisBlock)
        /\ get_block_ok(Self, 0)
        /\ get_block(Self, 0) = GenesisBlock
        /\ block_tree = <<block_hash(GenesisBlock)>>

\* from_maps was called with four empty maps and returned a ledger.
C24_Witness ==
    /\ result.op = "from_maps"
    /\ result.maps = EmptyMaps
    /\ result.ok
    /\ DOMAIN previous_hashes = {0}

\* The height whose block holds the transaction that creates the commitment.
HeightOf(commitment) ==
    CHOOSE h \in DOMAIN transactions : commitment \in Yields(transactions[h], CommitmentsOf)

\* C29: in the state path to_state_path(c) returns, the state root is the root of the
\* block tree, and the block path, block hash and previous block hash are those of the
\* latest block (proved at leaf index latest_height), while the header root, header
\* path, header leaf (index 1, transactions root) and transactions path are those of
\* the block at the height that holds c's transaction.
C29_StatePathFields ==
    (result.op = "to_state_path" /\ result.ok) =>
        LET path == result.path
            h == HeightOf(result.commitment)
        IN  /\ path.state_root = tree_root(block_tree)
            /\ path.block_path = MerklePath(current_height, current_hash, tree_root(block_tree))
            /\ block_tree[current_height + 1] = current_hash
            /\ path.block_hash = current_hash
            /\ path.block_hash = block_hash(get_block(Self, current_height))
            /\ path.previous_block_hash = previous_hashes[current_height]
            /\ path.header_root = header_to_root(headers[h])
            /\ path.header_path = MerklePath(1, path.header_leaf, header_to_root(headers[h]))
            /\ path.header_leaf = HeaderLeaf(1, headers[h].transactions_root)
            /\ path.transactions_path.root = transactions_to_root(transactions[h])
            /\ transactions[h][path.transactions_path.index + 1] = path.transaction_id
            /\ result.commitment \in Range(CommitmentsOf[path.transaction_id])

\* A state path was returned for a commitment of a block below the latest one.
C29_Witness ==
    /\ result.op = "to_state_path"
    /\ result.ok
    /\ current_height > 0
    /\ HeightOf(result.commitment) < current_height

\* The pair passes the check of its variant under the view key.
Passes(output_id, output, tvk) ==
    LET r == <<"psd2", <<tvk, output_id.index>>>> IN
    CASE output_id.variant \in {"Constant", "Public"} ->
             output_id.hash = <<"bhp1024", <<"bits", output>>>>
      [] output_id.variant = "Private" ->
             output_id.commitment = <<"commit_bhp1024", <<"bits", output>>, r>>
      [] output_id.variant = "Record" ->
             /\ output.kind = "Record"
             /\ output_id.commitment = <<"record_commitment", output.value, r>>
             /\ output_id.nonce = <<"x_coordinate", <<"g", r>>>>
             /\ output_id.checksum = <<"bhp1024", <<"bits", <<"encrypted_record", output.value, r>>>>>>

\* The response with every Constant id replaced by the Public id of the same hash, and
\* every Public id by the Constant one.
SwapModes(response) ==
    [response EXCEPT !.output_ids =
        [i \in DOMAIN @ |->
            CASE @[i].variant = "Constant" -> OutputPublic(@[i].hash)
              [] @[i].variant = "Public" -> OutputConstant(@[i].hash)
              [] OTHER -> @[i]]]

\* C26: Response::verify(tvk) returns true if and only if every (output id, output)
\* pair passes the check of its variant (Constant and Public: the hash of the output is
\* the expected hash; Private: the commitment of the output under HS(tvk, index) is the
\* expected one; Record: commitment, nonce and checksum are the expected ones): the
\* result is the conjunction over the pairs, true for an empty response, and the same
\* for Constant(h) as for Public(h).
C26_VerifyIsConjunctionOfChecks ==
    result.op = "verify" =>
        /\ (result.ok /\ result.value) =
               (\A i \in DOMAIN result.response.output_ids :
                    Passes(result.response.output_ids[i], result.response.outputs[i], result.tvk))
        /\ (result.response.output_ids = <<>> => result.ok /\ result.value)
        /\ verify(SwapModes(result.response), result.tvk) =
               [halted |-> ~result.ok, value |-> result.value]

\* A response with an output of more than one variant, a record among them, was
\* verified and found true.
C26_Witness ==
    /\ result.op = "verify"
    /\ result.ok
    /\ result.value
    /\ Cardinality({result.response.output_ids[i].variant :
                       i \in DOMAIN result.response.output_ids}) >= 2
    /\ \E i \in DOMAIN result.response.output_ids :
           result.response.output_ids[i].variant = "Record"

CommitIsVisible ==
    \/ <<current_hash, current_height, current_round>>' # <<current_hash, current_height, current_round>>
    \/ block_tree' # block_tree
    \/ <<previous_hashes, headers, transactions, signatures>>'
           # <<previous_hashes, headers, transactions, signatures>>
    \/ vm' # vm
    \/ \E id \in Range(memory_pool) : id \notin Range(memory_pool')

\* The step shows the whole commit of the block: the new tip, the new leaf, the new
\* entries of the four maps, the finalized transactions and the pool without them.
WholeCommit(block) ==
    /\ current_hash' = block_hash(block)
    /\ current_height' = block_height(block)
    /\ current_round' = block_round(block)
    /\ block_tree' = Append(block_tree, block_hash(block))
    /\ previous_hashes' = MapInsert(previous_hashes, block_height(block), block.previous_hash)
    /\ headers' = MapInsert(headers, block_height(block), block.header)
    /\ transactions' = MapInsert(transactions, block_height(block), block.transactions)
    /\ signatures' = MapInsert(signatures, block_height(block), block.signature)
    /\ block_height(block) \notin DOMAIN previous_hashes
    /\ vm'.finalized = vm.finalized \cup Range(block.transactions)
    /\ Range(memory_pool') = Range(memory_pool) \ Range(block.transactions)

\* C28: within one add_next_block commit no observer of the ledger sees an intermediate
\* state: the new entries of the four maps, the new leaf of the block tree, the updates
\* of the VM and the removals from the memory pool become visible in the same step as
\* the new tip, never before and never after.
C28_CommitBecomesVisibleAtOnce ==
    [][CommitIsVisible => staging.pc = "swap" /\ staging' = Idle /\ WholeCommit(staging.block)]_vars

\* A commit is under way on a ledger with a block above genesis: the staged copy holds
\* the block with a pooled transaction in its four maps while the ledger does not.
C28_Witness ==
    /\ staging.pc = "finalize"
    /\ current_height > 0
    /\ staging.block.transactions # <<>>
    /\ get_block_ok(staging.ledger, block_height(staging.block))
    /\ ~contains_height(Self, block_height(staging.block))
    /\ staging.ledger.current_hash # current_hash

\* add_next_block accepts the block propose_next_block returns, whatever the reading of
\* the wall clock after the timestamp of the latest block,
\* when the VM verifies it.
ProposedBlockIsAccepted ==
    /\ propose_next_block_ok(Self)
    /\ \A now \in (block_timestamp(latest_block(Self)) + 1)..(MaxTimestamp + 1) :
           add_next_block(Self, propose_next_block(Self, now), TRUE, "none").ok

\* The pooled transactions can be committed together: their origins are committed
\* commitments, they share no id, transition public key, serial number, commitment or
\* nonce with the committed transactions, and the VM finalizes them one after the other.
PoolIsCommittable ==
    /\ \A origin \in Yields(memory_pool, OriginsOf) :
           origin.kind = "Commitment" /\ origin.value \in CommittedCommitments
    /\ Range(memory_pool) \cap Range(committed_transactions(Self)) = {}
    /\ \A of \in {TransitionPublicKeysOf, SerialNumbersOf, CommitmentsOf, NoncesOf} :
           Shared(memory_pool, committed_transactions(Self), of) = {}
    /\ finalize_all(vm, memory_pool).ok

\* C30 (as stated): from every reachable ledger state the block propose_next_block
\* returns with a timestamp after the tip's is accepted by add_next_block, so that no
\* reachable content of the memory pool makes every proposed block fail.
C30_ProposedBlockIsAlwaysAccepted == ProposedBlockIsAccepted

\* C30 (amended): in every reachable ledger state the block propose_next_block returns
\* with a timestamp after the tip's is accepted by add_next_block if and only if the
\* pooled transactions can be committed together; with an empty memory pool it always
\* is.
C30_ProposedBlockIsAcceptedIffPoolIsCommittable ==
    /\ ProposedBlockIsAccepted <=> PoolIsCommittable
    /\ memory_pool = <<>> => ProposedBlockIsAccepted

\* A block of a pooled transaction was committed above genesis and the transactions
\* that stay in the pool can be committed together.
C30_Witness ==
    /\ result = [op |-> "add_next_block", ok |-> TRUE, error |-> "none"]
    /\ current_height > 0
    /\ memory_pool # <<>>
    /\ PoolIsCommittable
    /\ ProposedBlockIsAccepted

=============================================================================
